---- MODULE Spec2Model ----
(***************************************************************************)
(* Model of the sACN receiver (src/sacn/receiver.go): the listener         *)
(* goroutine started by startListener, the handle goroutines it spawns,    *)
(* the per-universe source bookkeeping (updateSourcesMap,                  *)
(* getAllowedSources) and the sequence check (checkSequ).                  *)
(*                                                                         *)
(* Times are in milliseconds and are measured from the present: time.Now() *)
(* is 0, a stored time.Time is 0 or negative, and the passing of time      *)
(* moves every stored time into the past. The code only ever compares      *)
(* now - x with timeoutMs, so times older than Oldest are kept as Oldest.  *)
(* A goroutine runs from one blocking operation to the next as one step:   *)
(* the listener blocks in ReadFrom, a handle goroutine in its channel send.*)
(***************************************************************************)
EXTENDS Integers, Sequences, FiniteSets, TLC

(***************************************************************************)
(* Program constants and the bounds of the model.                          *)
(***************************************************************************)
\* const timeoutMs (declared beside the receiver socket; spec.md 4.4: 2500 ms)
timeoutMs == 2500

\* time passes in steps of half a timeout
TickMs == timeoutMs \div 2
\* stored times older than this are not told apart
Oldest == 0 - (timeoutMs + TickMs)
\* number of iterations of the listener loop
MaxCycles == 4
\* number of times one universe is activated
MaxActivations == 1
\* number of goroutines started and not yet run when the listener iterates
MaxRunnable == 0

Universes == {1, 2}
CIDs == {"A", "B"}
Priorities == {50, 100}
Payloads == {<<1, 2, 3>>, <<4, 5, 6>>}

\* what a source chooses for a data packet it sends
Choices == [cid : CIDs, priority : Priorities, data : Payloads]

\* a nil *DataPacket
Nil == [universe |-> 0, cid |-> "nil", priority |-> 0, sequence |-> 0, data |-> <<>>]

VARIABLES
  activated,    \* r.activated: the set of active universes
  lastDatas,    \* r.lastDatas: universe -> lastData
  activations,  \* universe -> number of lastData structs allocated for it
  stopListener, \* whether r.stopListener has been signalled
  loopPc,       \* position of the listener goroutine: "top", "read", "stopped"
  deadline,     \* the read deadline set on the socket
  socketOpen,   \* whether r.socket is open
  cycle,        \* number of loop iterations begun
  sent,         \* universe -> cid -> number of data packets sent to it
  tasks,        \* the handle goroutines spawned and not yet returned
  crashed,      \* a goroutine paniced (nil pointer dereference)
  lastStep,     \* history: what the last step of a handle goroutine did
  lastHeard,    \* history: universe -> cid -> the last packet handled from it
  lastSeen,     \* history: universe -> the last datagram read and packet accepted
  prevAccepted, \* history: universe -> payload of the last accepted packet
  probe         \* a call of checkSequ: its arguments and its result

vars ==
  <<activated, lastDatas, activations, stopListener, loopPc, deadline,
    socketOpen, cycle, sent, tasks, crashed, lastStep, lastHeard, lastSeen,
    prevAccepted, probe>>

\* time.Now()
now == 0

\* a stored time after TickMs have passed
aged(x) == IF x - TickMs < Oldest THEN Oldest ELSE x - TickMs

(***************************************************************************)
(* Pure functions.                                                         *)
(***************************************************************************)

\* checkSequ with the tolerance window one too large
checkSequWide(old, new) ==
  LET tmp == new - old
  IN  ~(tmp <= 0 /\ tmp > -21)

\* func checkSequ(old, new byte) bool: the difference is taken in int
checkSequ(old, new) ==
  LET tmp == new - old
  IN  ~(tmp <= 0 /\ tmp > -20)

\* equalData: byte-for-byte comparison of two payloads
equalData(a, b) == a = b

\* one iteration of the range loop of updateSourcesMap over entry key, whose
\* value is the loop's copy of m[key]: the copy as the body leaves it, and
\* whether the body deletes the entry
rangeBody(key, value, p, t) ==
  IF key = p.cid
  THEN [deleted |-> FALSE,
        value |->
          IF value.highestPrio < p.priority
          THEN [lastTime |-> t, lastTimeHighPrio |-> t, highestPrio |-> p.priority]
          ELSE IF value.highestPrio = p.priority
          THEN [value EXCEPT !.lastTime = t, !.lastTimeHighPrio = t]
          ELSE IF t - value.lastTimeHighPrio > timeoutMs
          THEN [lastTime |-> t, lastTimeHighPrio |-> t, highestPrio |-> p.priority]
          ELSE [value EXCEPT !.lastTime = t]]
  ELSE [deleted |-> t - value.lastTime > timeoutMs, value |-> value]

\* updateSourcesMap that never evicts
updateSourcesMapNoEvict(m, p, t) ==
  [k \in DOMAIN m \cup {p.cid} |->
     IF k \in DOMAIN m THEN m[k]
     ELSE [lastTime |-> t, lastTimeHighPrio |-> t, highestPrio |-> p.priority]]

\* func updateSourcesMap(m, p): `value` is the range loop's copy of the map
\* entry, and the loop never stores it back, so an entry that stays in the
\* map keeps the record it was inserted with
updateSourcesMap(m, p, t) ==
  LET kept == {k \in DOMAIN m : ~rangeBody(k, m[k], p, t).deleted}
  IN  [k \in kept \cup {p.cid} |->
         IF k \in DOMAIN m THEN m[k]
         ELSE [lastTime |-> t, lastTimeHighPrio |-> t, highestPrio |-> p.priority]]

\* the priority getAllowedSources filters for
maxPrio(m) ==
  IF \E k \in DOMAIN m : m[k].highestPrio > 0
  THEN CHOOSE h \in {m[k].highestPrio : k \in DOMAIN m} :
         \A k \in DOMAIN m : m[k].highestPrio <= h
  ELSE 0

\* getAllowedSources with the first loop's comparison reversed: it filters
\* for the lowest priority
getAllowedSourcesLowest(m) ==
  {k \in DOMAIN m : \A j \in DOMAIN m : m[k].highestPrio <= m[j].highestPrio}

\* func getAllowedSources(m): the sources with the highest priority
getAllowedSources(m) == {k \in DOMAIN m : m[k].highestPrio = maxPrio(m)}


(***************************************************************************)
(* State after NewReceiverSocket.                                          *)
(***************************************************************************)
NoStep ==
  [kind |-> "none", id |-> 0, universe |-> 0, p |-> Nil, outcome |-> "none",
   tmp |-> {}, evicted |-> {}]

NoProbe == [old |-> 0, new |-> 0, delta |-> 0, ok |-> FALSE, done |-> FALSE]

\* history of a source on a universe: whether and when a packet of it was
\* last handled, that packet's priority, whether all its packets had that
\* priority (steady) and came less than a timeout apart (regular)
NotHeard ==
  [heard |-> FALSE, time |-> Oldest, priority |-> 0, steady |-> TRUE,
   regular |-> TRUE]

\* history of a universe: when the listener last read a data packet for it,
\* when a handler last accepted one, and the source and sequence number of
\* the packet accepted last since the universe became active
NeverSeen ==
  [received |-> Oldest, accepted |-> Oldest, cid |-> "nil", sequence |-> 0]

InitReceiver ==
  /\ activated = {}
  /\ lastDatas = [u \in {} |-> 0]
  /\ activations = [u \in Universes |-> 0]
  /\ stopListener = FALSE
  /\ loopPc = "top"
  /\ deadline = 0
  /\ socketOpen = TRUE
  /\ cycle = 0
  /\ sent = [u \in Universes |-> [c \in CIDs |-> 0]]
  /\ tasks = {}
  /\ crashed = FALSE
  /\ lastStep = NoStep
  /\ lastHeard = [u \in Universes |-> [c \in CIDs |-> NotHeard]]
  /\ lastSeen = [u \in Universes |-> NeverSeen]
  /\ prevAccepted = [u \in Universes |-> <<>>]

Init ==
  /\ InitReceiver
  /\ probe = NoProbe

(***************************************************************************)
(* The environment: the clock, the owner of the socket object.             *)
(***************************************************************************)
agedSource(v) ==
  [v EXCEPT !.lastTime = aged(@), !.lastTimeHighPrio = aged(@)]

agedData(ld) ==
  [ld EXCEPT !.lastTime = aged(@),
             !.sources = [c \in DOMAIN @ |-> agedSource(@[c])]]

\* TickMs pass
Tick ==
  /\ ~crashed
  /\ lastDatas' = [u \in DOMAIN lastDatas |-> agedData(lastDatas[u])]
  /\ deadline' = IF deadline - TickMs < 0 THEN 0 ELSE deadline - TickMs
  /\ lastHeard' =
       [u \in Universes |->
          [c \in CIDs |-> [lastHeard[u][c] EXCEPT !.time = aged(@)]]]
  /\ lastSeen' =
       [u \in Universes |->
          [lastSeen[u] EXCEPT !.received = aged(@), !.accepted = aged(@)]]
  /\ lastStep' = NoStep
  /\ UNCHANGED <<activated, activations, stopListener, loopPc, socketOpen,
                 cycle, sent, tasks, crashed, prevAccepted, probe>>

\* a universe becomes active: its Universe State is created
ActivateUniverse(u) ==
  /\ ~crashed
  /\ u \notin activated
  /\ activations[u] < MaxActivations
  /\ activated' = activated \cup {u}
  /\ activations' = [activations EXCEPT ![u] = @ + 1]
  /\ lastDatas' =
       [v \in DOMAIN lastDatas \cup {u} |->
          IF v = u
          THEN [sources |-> [c \in {} |-> 0], lastTime |-> now, lastSequ |-> 0,
                lastDMXdata |-> <<>>, gen |-> activations[u] + 1]
          ELSE lastDatas[v]]
  /\ lastHeard' = [lastHeard EXCEPT ![u] = [c \in CIDs |-> NotHeard]]
  /\ lastSeen' =
       [lastSeen EXCEPT ![u] = [NeverSeen EXCEPT !.received = lastSeen[u].received]]
  /\ prevAccepted' = [prevAccepted EXCEPT ![u] = <<>>]
  /\ lastStep' = NoStep
  /\ UNCHANGED <<stopListener, loopPc, deadline, socketOpen, cycle, sent,
                 tasks, crashed, probe>>

\* a universe is deactivated: its Universe State is discarded
DeactivateUniverse(u) ==
  /\ ~crashed
  /\ u \in activated
  /\ activated' = activated \ {u}
  /\ lastDatas' = [v \in DOMAIN lastDatas \ {u} |-> lastDatas[v]]
  /\ lastStep' = NoStep
  /\ UNCHANGED <<activations, stopListener, loopPc, deadline, socketOpen,
                 cycle, sent, tasks, crashed, lastHeard, lastSeen, prevAccepted, probe>>

\* the stop signal is raised
Stop ==
  /\ ~crashed
  /\ ~stopListener
  /\ stopListener' = TRUE
  /\ lastStep' = NoStep
  /\ UNCHANGED <<activated, lastDatas, activations, loopPc, deadline,
                 socketOpen, cycle, sent, tasks, crashed, lastHeard, lastSeen, prevAccepted, probe>>

isActive(u) == u \in activated

GetAllActive == activated

(***************************************************************************)
(* The listener goroutine.                                                 *)
(***************************************************************************)

\* `go r.handle(univ, p)`: a new goroutine at the first line of handle
spawn(u, p) ==
  [id |-> cycle, universe |-> u, p |-> p, pc |-> "start", err |-> "none",
   ref |-> 0]

\* handle called without `go`: the listener waits for the calls to return
joinedInline(ts) == ts

\* the goroutines the listener waits for before its next iteration: `go`
\* starts them and does not wait
joined(ts) == {}

\* top of the loop: the non-blocking receive from stopListener, then
\* SetDeadline; on a stop signal break out of the loop and close the socket
LoopCheckStop ==
  /\ ~crashed
  /\ loopPc = "top"
  /\ joined(tasks) = {}
  /\ IF stopListener
     THEN /\ loopPc' = "stopped"
          /\ socketOpen' = FALSE
          /\ UNCHANGED <<deadline, cycle>>
     ELSE /\ cycle < MaxCycles
          /\ cycle' = cycle + 1
          /\ deadline' = now + timeoutMs
          /\ loopPc' = "read"
          /\ UNCHANGED socketOpen
  /\ lastStep' = NoStep
  /\ UNCHANGED <<activated, lastDatas, activations, stopListener, sent, tasks,
                 crashed, lastHeard, lastSeen, prevAccepted, probe>>

\* ReadFrom returns at the deadline with addr == nil: every active universe
\* gets a handler with nil; the empty buffer does not parse, so continue
LoopReadTimeout ==
  /\ ~crashed
  /\ loopPc = "read"
  /\ now >= deadline
  /\ tasks' = tasks \cup {spawn(u, Nil) : u \in GetAllActive}
  /\ loopPc' = "top"
  /\ lastStep' = NoStep
  /\ UNCHANGED <<activated, lastDatas, activations, stopListener, deadline,
                 socketOpen, cycle, sent, crashed, lastHeard, lastSeen, prevAccepted, probe>>

\* the data packet a source sends to universe u: it numbers its packets to
\* a universe consecutively, as an 8-bit value
packet(u, c) ==
  [universe |-> u, cid |-> c.cid, priority |-> c.priority,
   sequence |-> (sent[u][c.cid] + 1) % 256, data |-> c.data]

\* LoopReadPacket without the test univ != p.Universe(): the universe of the
\* packet gets a handler with nil as well
LoopReadPacketNilToAll(u, c) ==
  /\ ~crashed
  /\ loopPc = "read"
  /\ now < deadline
  /\ LET p == packet(u, c)
     IN  tasks' = tasks
           \cup (IF isActive(p.universe) THEN {spawn(p.universe, p)} ELSE {})
           \cup {spawn(v, Nil) : v \in GetAllActive}
  /\ sent' = [sent EXCEPT ![u][c.cid] = @ + 1]
  /\ lastSeen' = [lastSeen EXCEPT ![u].received = now]
  /\ loopPc' = "top"
  /\ lastStep' = NoStep
  /\ UNCHANGED <<activated, lastDatas, activations, stopListener, deadline,
                 socketOpen, cycle, crashed, lastHeard, prevAccepted, probe>>

\* ReadFrom returns a datagram that parses to a data packet p: the handler
\* of p.Universe() gets p if that universe is active, the others get nil
LoopReadPacket(u, c) ==
  /\ ~crashed
  /\ loopPc = "read"
  /\ now < deadline
  /\ LET p == packet(u, c)
     IN  tasks' = tasks
           \cup (IF isActive(p.universe) THEN {spawn(p.universe, p)} ELSE {})
           \cup {spawn(v, Nil) : v \in GetAllActive \ {p.universe}}
  /\ sent' = [sent EXCEPT ![u][c.cid] = @ + 1]
  /\ lastSeen' = [lastSeen EXCEPT ![u].received = now]
  /\ loopPc' = "top"
  /\ lastStep' = NoStep
  /\ UNCHANGED <<activated, lastDatas, activations, stopListener, deadline,
                 socketOpen, cycle, crashed, lastHeard, prevAccepted, probe>>

\* ReadFrom returns a datagram NewDataPacketRaw rejects: continue
LoopReadMalformed ==
  /\ ~crashed
  /\ loopPc = "read"
  /\ now < deadline
  /\ loopPc' = "top"
  /\ lastStep' = NoStep
  /\ UNCHANGED <<activated, lastDatas, activations, stopListener, deadline,
                 socketOpen, cycle, sent, tasks, crashed, lastHeard, lastSeen, prevAccepted, probe>>


\* ReadFrom returns an error other than the deadline, which the listener
\* discards: addr is nil, so every active universe gets a handler with nil;
\* the empty buffer does not parse, so continue
LoopReadFailed ==
  /\ ~crashed
  /\ loopPc = "read"
  /\ tasks' = tasks \cup {spawn(u, Nil) : u \in GetAllActive}
  /\ loopPc' = "top"
  /\ lastStep' = [NoStep EXCEPT !.kind = "readFailed"]
  /\ UNCHANGED <<activated, lastDatas, activations, stopListener, deadline,
                 socketOpen, cycle, sent, crashed, lastHeard, lastSeen, prevAccepted, probe>>

(***************************************************************************)
(* The handle goroutines.                                                  *)
(***************************************************************************)

\* handle without the test of len(tmp) > 1: tied sources all pass
handlePacketNoLimit(ld, p, t) ==
  LET m == updateSourcesMap(ld.sources, p, t)
      tmp == getAllowedSources(m)
      ld1 == [ld EXCEPT !.sources = m]
      ld2 == [ld1 EXCEPT !.lastSequ = p.sequence, !.lastTime = t]
  IN  IF p.cid \in tmp
      THEN IF ~checkSequ(ld.lastSequ, p.sequence)
           THEN [ld |-> ld1, tmp |-> tmp, outcome |-> "rejected"]
           ELSE IF ~equalData(ld.lastDMXdata, p.data)
           THEN [ld |-> ld2, tmp |-> tmp, outcome |-> "emit"]
           ELSE [ld |-> ld2, tmp |-> tmp, outcome |-> "duplicate"]
      ELSE [ld |-> ld1, tmp |-> tmp, outcome |-> "loser"]

\* handle without the refresh of lastData.lastTime on an accepted packet
handlePacketNoStamp(ld, p, t) ==
  LET m == updateSourcesMap(ld.sources, p, t)
      tmp == getAllowedSources(m)
      ld1 == [ld EXCEPT !.sources = m]
      ld2 == [ld1 EXCEPT !.lastSequ = p.sequence]
  IN  IF Cardinality(tmp) > 1
      THEN [ld |-> ld1, tmp |-> tmp, outcome |-> "exceeded"]
      ELSE IF p.cid \in tmp
      THEN IF ~checkSequ(ld.lastSequ, p.sequence)
           THEN [ld |-> ld1, tmp |-> tmp, outcome |-> "rejected"]
           ELSE IF ~equalData(ld.lastDMXdata, p.data)
           THEN [ld |-> ld2, tmp |-> tmp, outcome |-> "emit"]
           ELSE [ld |-> ld2, tmp |-> tmp, outcome |-> "duplicate"]
      ELSE [ld |-> ld1, tmp |-> tmp, outcome |-> "loser"]

\* handle with lastData.lastTime refreshed before the sequence check
handlePacketStampFirst(ld, p, t) ==
  LET m == updateSourcesMap(ld.sources, p, t)
      tmp == getAllowedSources(m)
      ld1 == [ld EXCEPT !.sources = m]
      ld2 == [ld1 EXCEPT !.lastSequ = p.sequence, !.lastTime = t]
  IN  IF Cardinality(tmp) > 1
      THEN [ld |-> ld1, tmp |-> tmp, outcome |-> "exceeded"]
      ELSE IF p.cid \in tmp
      THEN IF ~checkSequ(ld.lastSequ, p.sequence)
           THEN [ld |-> [ld1 EXCEPT !.lastTime = t], tmp |-> tmp,
                 outcome |-> "rejected"]
           ELSE IF ~equalData(ld.lastDMXdata, p.data)
           THEN [ld |-> ld2, tmp |-> tmp, outcome |-> "emit"]
           ELSE [ld |-> ld2, tmp |-> tmp, outcome |-> "duplicate"]
      ELSE [ld |-> ld1, tmp |-> tmp, outcome |-> "loser"]

\* handle that lets the first packet of a source new to the universe pass
\* without the sequence check
handlePacketFreshSource(ld, p, t) ==
  LET m == updateSourcesMap(ld.sources, p, t)
      tmp == getAllowedSources(m)
      ld1 == [ld EXCEPT !.sources = m]
      ld2 == [ld1 EXCEPT !.lastSequ = p.sequence, !.lastTime = t]
  IN  IF Cardinality(tmp) > 1
      THEN [ld |-> ld1, tmp |-> tmp, outcome |-> "exceeded"]
      ELSE IF p.cid \in tmp
      THEN IF p.cid \in DOMAIN ld.sources /\ ~checkSequ(ld.lastSequ, p.sequence)
           THEN [ld |-> ld1, tmp |-> tmp, outcome |-> "rejected"]
           ELSE IF ~equalData(ld.lastDMXdata, p.data)
           THEN [ld |-> ld2, tmp |-> tmp, outcome |-> "emit"]
           ELSE [ld |-> ld2, tmp |-> tmp, outcome |-> "duplicate"]
      ELSE [ld |-> ld1, tmp |-> tmp, outcome |-> "loser"]

\* handle, the branch for a packet of this universe, up to the channel send:
\* the lastData struct as it leaves it, the allowed sources it computed and
\* what it decided
handlePacket(ld, p, t) ==
  LET m == updateSourcesMap(ld.sources, p, t)
      tmp == getAllowedSources(m)
      ld1 == [ld EXCEPT !.sources = m]
      ld2 == [ld1 EXCEPT !.lastSequ = p.sequence, !.lastTime = t]
  IN  IF Cardinality(tmp) > 1
      THEN [ld |-> ld1, tmp |-> tmp, outcome |-> "exceeded"]
      ELSE IF p.cid \in tmp
      THEN IF ~checkSequ(ld.lastSequ, p.sequence)
           THEN [ld |-> ld1, tmp |-> tmp, outcome |-> "rejected"]
           ELSE IF ~equalData(ld.lastDMXdata, p.data)
           THEN [ld |-> ld2, tmp |-> tmp, outcome |-> "emit"]
           ELSE [ld |-> ld2, tmp |-> tmp, outcome |-> "duplicate"]
      ELSE [ld |-> ld1, tmp |-> tmp, outcome |-> "loser"]

\* handle with the timeout test taken as >=
timedOutEarly(ld, t) == t - ld.lastTime >= timeoutMs

\* handle, the else branch: time.Since(lastTime) > timeoutMs
timedOut(ld, t) == t - ld.lastTime > timeoutMs

step(t, outcome, tmp, evicted) ==
  [kind |-> "handle", id |-> t.id, universe |-> t.universe, p |-> t.p,
   outcome |-> outcome, tmp |-> tmp, evicted |-> evicted]

heard(old, p, t) ==
  [heard |-> TRUE, time |-> t, priority |-> p.priority,
   steady |-> ~old.heard \/ (old.steady /\ old.priority = p.priority),
   regular |-> ~old.heard \/ (old.regular /\ t - old.time < timeoutMs)]

\* func (r *ReceiverSocket) handle(universe, p), from its first line to its
\* return or to the channel send it blocks in
handle(t) ==
  /\ ~crashed
  /\ t \in tasks
  /\ t.pc = "start"
  /\ LET u == t.universe
         p == t.p
     IN  IF p # Nil /\ u = p.universe /\ isActive(u)
         THEN LET r == handlePacket(lastDatas[u], p, now)
              IN  /\ lastDatas' = [lastDatas EXCEPT ![u] = r.ld]
                  /\ tasks' =
                       IF r.outcome = "exceeded"
                       THEN (tasks \ {t})
                              \cup {[t EXCEPT !.pc = "sendErr", !.err = "sources exceeded"]}
                       ELSE IF r.outcome = "emit"
                       THEN (tasks \ {t})
                              \cup {[t EXCEPT !.pc = "sendData", !.ref = r.ld.gen]}
                       ELSE tasks \ {t}
                  /\ lastStep' =
                       step(t, r.outcome, r.tmp,
                            DOMAIN lastDatas[u].sources \ DOMAIN r.ld.sources)
                  /\ lastHeard' =
                       [lastHeard EXCEPT ![u][p.cid] = heard(@, p, now)]
                  /\ prevAccepted' =
                       IF r.outcome \in {"emit", "duplicate"}
                       THEN [prevAccepted EXCEPT ![u] = p.data]
                       ELSE prevAccepted
                  /\ lastSeen' =
                       IF r.outcome \in {"emit", "duplicate"}
                       THEN [lastSeen EXCEPT ![u].accepted = now,
                                             ![u].cid = p.cid,
                                             ![u].sequence = p.sequence]
                       ELSE lastSeen
                  /\ UNCHANGED crashed
         ELSE IF u \notin DOMAIN lastDatas
         THEN \* r.lastDatas[universe] is nil: nil pointer dereference
              /\ crashed' = TRUE
              /\ lastStep' = step(t, "panic", {}, {})
              /\ UNCHANGED <<lastDatas, tasks, lastHeard, lastSeen, prevAccepted>>
         ELSE IF timedOut(lastDatas[u], now)
         THEN /\ tasks' = (tasks \ {t})
                    \cup {[t EXCEPT !.pc = "sendErr", !.err = "timeout"]}
              /\ lastStep' = step(t, "timeout", {}, {})
              /\ UNCHANGED <<lastDatas, crashed, lastHeard, lastSeen, prevAccepted>>
         ELSE /\ tasks' = tasks \ {t}
              /\ lastStep' = step(t, "idle", {}, {})
              /\ UNCHANGED <<lastDatas, crashed, lastHeard, lastSeen, prevAccepted>>
  /\ UNCHANGED <<activated, activations, stopListener, loopPc, deadline,
                 socketOpen, cycle, sent, probe>>

\* a consumer receives from DataChan: the goroutine blocked in
\* `r.DataChan <- *p` goes on, stores the copy of the payload in the lastData
\* struct it holds and returns
RecvData(t) ==
  /\ ~crashed
  /\ t \in tasks
  /\ t.pc = "sendData"
  /\ tasks' = tasks \ {t}
  /\ lastDatas' =
       IF t.universe \in DOMAIN lastDatas /\ lastDatas[t.universe].gen = t.ref
       THEN [lastDatas EXCEPT ![t.universe].lastDMXdata = t.p.data]
       ELSE lastDatas
  /\ lastStep' =
       [kind |-> "recvData", id |-> t.id, universe |-> t.universe, p |-> t.p,
        outcome |-> "data", tmp |-> {}, evicted |-> {}]
  /\ UNCHANGED <<activated, activations, stopListener, loopPc, deadline,
                 socketOpen, cycle, sent, crashed, lastHeard, lastSeen, prevAccepted, probe>>

\* a consumer receives from ErrChan: the goroutine blocked in errToCh returns
RecvErr(t) ==
  /\ ~crashed
  /\ t \in tasks
  /\ t.pc = "sendErr"
  /\ tasks' = tasks \ {t}
  /\ lastStep' =
       [kind |-> "recvErr", id |-> t.id, universe |-> t.universe, p |-> t.p,
        outcome |-> t.err, tmp |-> {}, evicted |-> {}]
  /\ UNCHANGED <<activated, lastDatas, activations, stopListener, loopPc,
                 deadline, socketOpen, cycle, sent, crashed, lastHeard, lastSeen, prevAccepted, probe>>

\* the goroutines that are started and have not yet run
runnable == {t \in tasks : t.pc = "start"}

\* a listener that never looks at stopListener
LoopBeginDeaf ==
  ~stopListener /\ Cardinality(runnable) <= MaxRunnable /\ LoopCheckStop

\* the listener's part of an iteration that begins: the stop check and
\* SetDeadline, once the goroutines of the iteration before have run
LoopBegin == Cardinality(runnable) <= MaxRunnable /\ LoopCheckStop

\* the steps of the receiver when the universes us get subscribed to and the
\* sources send the packets cs to the universes ps; the listener begins an
\* iteration with at most MaxRunnable goroutines still waiting to run
NextOver(us, ps, cs) ==
  \/ Tick
  \/ \E u \in us : ActivateUniverse(u)
  \/ LoopBegin
  \/ LoopReadTimeout
  \/ \E u \in ps, c \in cs : LoopReadPacket(u, c)
  \/ LoopReadMalformed
  \/ \E t \in tasks : handle(t)
  \/ \E t \in tasks : RecvData(t)
  \/ \E t \in tasks : RecvErr(t)

\* two sources transmit to the one subscribed universe, each its own payload
ArbChoices ==
  {c \in Choices : c.data = (IF c.cid = "A" THEN <<1, 2, 3>> ELSE <<4, 5, 6>>)}

Next == NextOver({1}, {1}, ArbChoices)

Spec == Init /\ [][Next]_vars

\* one source transmits changing payloads to the one subscribed universe
DataChoices == {c \in Choices : c.cid = "A" /\ c.priority = 100}

NextData == NextOver({1}, {1}, DataChoices)

SpecData == Init /\ [][NextData]_vars

\* two subscribed universes, one source transmitting to universe 1
DispatchChoices == {c \in DataChoices : c.data = <<1, 2, 3>>}

NextDispatch == NextOver(Universes, {1}, DispatchChoices)

SpecDispatch == Init /\ [][NextDispatch]_vars

\* nobody ever receives from DataChan or ErrChan: two subscribed universes,
\* one source transmitting to universe 1
NextNoConsumer ==
  \/ Tick
  \/ \E u \in Universes : ActivateUniverse(u)
  \/ LoopBegin
  \/ LoopReadTimeout
  \/ \E c \in DispatchChoices : LoopReadPacket(1, c)
  \/ LoopReadMalformed
  \/ \E t \in tasks : handle(t)

\* time passes, the scheduler runs the listener and every started goroutine,
\* and ReadFrom returns at its deadline
SpecNoConsumer ==
  /\ Init
  /\ [][NextNoConsumer]_vars
  /\ WF_vars(Tick)
  /\ WF_vars(LoopBegin)
  /\ WF_vars(LoopReadTimeout)
  /\ WF_vars(\E t \in tasks : handle(t))

\* the owner raises the stop signal at some time and the socket may fail:
\* one subscribed universe, one source
NextStop ==
  \/ NextOver({1}, {1}, DispatchChoices)
  \/ Stop
  \/ LoopReadFailed

\* time passes, the scheduler runs the listener and every started goroutine,
\* and ReadFrom returns at its deadline
SpecStop ==
  /\ Init
  /\ [][NextStop]_vars
  /\ WF_vars(Tick)
  /\ WF_vars(LoopBegin)
  /\ WF_vars(LoopReadTimeout)
  /\ WF_vars(\E t \in tasks : handle(t))

\* two sources at priority 100 transmit to the subscribed universe 1 and to
\* universe 2, which nobody subscribes to
TieChoices == {c \in ArbChoices : c.priority = 100}

NextSilence == NextOver({1}, Universes, TieChoices)

SpecSilence == Init /\ [][NextSilence]_vars

\* one universe that is subscribed and unsubscribed while packets arrive
NextDeact ==
  \/ NextOver({1}, {1}, DispatchChoices)
  \/ \E u \in {1} : DeactivateUniverse(u)

SpecDeact == Init /\ [][NextDeact]_vars

(***************************************************************************)
(* The sequence validator on its own: checkSequ applied to an 8-bit old    *)
(* and to old + delta taken as an 8-bit value.                             *)
(***************************************************************************)
Deltas == {1, 0, -1, -19, -20}

InitSeq ==
  /\ InitReceiver
  /\ probe \in {[NoProbe EXCEPT !.old = o] : o \in 0..255}

Validate(d) ==
  /\ ~probe.done
  /\ LET new == (probe.old + d) % 256
     IN  probe' = [old |-> probe.old, new |-> new, delta |-> d,
                   ok |-> checkSequ(probe.old, new), done |-> TRUE]
  /\ UNCHANGED <<activated, lastDatas, activations, stopListener, loopPc,
                 deadline, socketOpen, cycle, sent, tasks, crashed, lastStep,
                 lastHeard, lastSeen, prevAccepted>>

NextSeq == \E d \in Deltas : Validate(d)

SpecSeq == InitSeq /\ [][NextSeq]_vars


(***************************************************************************)
(* Properties.                                                             *)
(***************************************************************************)

\* the winning set: the sources whose recorded priority is the maximum
winningSet(m) ==
  {k \in DOMAIN m : \A j \in DOMAIN m : m[j].highestPrio <= m[k].highestPrio}

\* the last step was handle running for a packet of its active universe
handledPacket(s) == s.kind = "handle" /\ s.p # Nil /\ s.outcome # "panic"

\* the step passed the packet to the sequence validator
validated(s) == s.outcome \in {"rejected", "emit", "duplicate"}

\* source c has been silent on universe u for longer than the timeout
silent(u, c) ==
  lastHeard[u][c].heard => now - lastHeard[u][c].time > timeoutMs

\* source c is live on universe u: its packets came less than a timeout
\* apart and the last of them at most a timeout ago
live(u, c) ==
  /\ lastHeard[u][c].heard
  /\ lastHeard[u][c].regular
  /\ now - lastHeard[u][c].time <= timeoutMs

\* source c keeps transmitting to universe u: live, and its next packet is
\* not yet due
transmitting(u, c) ==
  live(u, c) /\ now - lastHeard[u][c].time < timeoutMs

\* the step accepted its packet: it came from the sole winner and passed the
\* sequence validator
accepted(s) == handledPacket(s) /\ s.outcome \in {"emit", "duplicate"}

\* the goroutines that have begun handle for universe u and will still
\* write to its lastData struct: blocked in `r.DataChan <- *p`, the copy into
\* lastDMXdata ahead of them
inHandle(u) == {t \in tasks : t.universe = u /\ t.pc = "sendData"}

\* C1: a handling step sends its packet to the data sink only if the
\* packet's CID is the only member of the winning set after admitOrUpdate; a
\* packet whose CID is not in the winning set is not sequence-validated,
\* leaves lastSequ, lastDMXdata and lastTime alone and is not sent
C1_OnlySoleWinnerReachesSink ==
  [][handledPacket(lastStep') =>
       LET u == lastStep'.universe
           p == lastStep'.p
           win == winningSet(lastDatas'[u].sources)
           sending == {t \in tasks' \ tasks : t.pc = "sendData"}
       IN  /\ sending # {} => win = {p.cid}
           /\ p.cid \notin win =>
                /\ sending = {}
                /\ ~validated(lastStep')
                /\ lastDatas'[u].lastSequ = lastDatas[u].lastSequ
                /\ lastDatas'[u].lastDMXdata = lastDatas[u].lastDMXdata
                /\ lastDatas'[u].lastTime = lastDatas[u].lastTime]_vars

\* a losing source's second packet, whose sequence number the validator would
\* have accepted, was dropped
C1_Witness ==
  /\ handledPacket(lastStep)
  /\ lastStep.outcome = "loser"
  /\ lastStep.p.sequence = 2
  /\ checkSequ(lastDatas[lastStep.universe].lastSequ, lastStep.p.sequence)

\* C2 as claimed: when a packet is handled from a source while another
\* source keeps transmitting at the same priority, less than a timeout
\* between its packets, and no live source has a higher priority (each of the
\* two has only ever sent at that priority), the winning set holds both and
\* the packet produces SourcesExceeded and nothing else
C2_TiedLiveSourcesExceed ==
  handledPacket(lastStep) =>
    LET u == lastStep.universe
        p == lastStep.p
        h == lastHeard[u]
    IN  \A d \in CIDs \ {p.cid} :
          ( /\ transmitting(u, d)
            /\ h[d].steady /\ h[p.cid].steady
            /\ h[d].priority = p.priority
            /\ \A e \in CIDs : live(u, e) => h[e].priority <= p.priority )
          => /\ {p.cid, d} \subseteq winningSet(lastDatas[u].sources)
             /\ lastStep.outcome = "exceeded"

\* C3 as claimed: an accepted packet is sent to the data sink if and only if
\* its payload differs from the payload of the packet accepted before it on
\* that universe
C3_EmitIffPayloadChanged ==
  [][accepted(lastStep') =>
       ( lastStep'.outcome = "emit"
           <=> lastStep'.p.data # prevAccepted[lastStep'.universe] )]_vars

\* C4 as claimed: while a source is live (each source has only ever sent at
\* one priority), it stays in the source set, and a source of lower priority
\* is not in the winning set and has no packet accepted
C4_LiveHigherSourceHoldsUniverse ==
  \A u \in DOMAIN lastDatas :
    \A a \in CIDs, b \in CIDs :
      ( /\ a # b
        /\ live(u, a) /\ lastHeard[u][a].steady
        /\ lastHeard[u][b].heard /\ lastHeard[u][b].steady
        /\ lastHeard[u][a].priority > lastHeard[u][b].priority )
      => /\ a \in DOMAIN lastDatas[u].sources
         /\ b \notin winningSet(lastDatas[u].sources)
         /\ (handledPacket(lastStep) /\ lastStep.universe = u /\ lastStep.p.cid = b)
              => ~validated(lastStep)

\* C5: a packet handled from a source when every other source has been
\* silent for longer than the timeout evicts the others, leaves its source
\* the only member of the winning set and goes to sequence validation
C5_TakeoverAfterTimeout ==
  [][( /\ handledPacket(lastStep')
       /\ \A d \in CIDs \ {lastStep'.p.cid} : silent(lastStep'.universe, d) )
     => LET u == lastStep'.universe
            p == lastStep'.p
        IN  /\ DOMAIN lastDatas'[u].sources = {p.cid}
            /\ winningSet(lastDatas'[u].sources) = {p.cid}
            /\ validated(lastStep')]_vars

\* a packet at priority 50 evicted the silent source of priority 100 and was
\* sequence-validated
C5_Witness ==
  /\ handledPacket(lastStep)
  /\ lastStep.p.priority = 50
  /\ lastStep.evicted # {}
  /\ \A d \in lastStep.evicted :
       /\ lastHeard[lastStep.universe][d].priority = 100
       /\ silent(lastStep.universe, d)
  /\ winningSet(lastDatas[lastStep.universe].sources) = {lastStep.p.cid}
  /\ validated(lastStep)

\* C6: for every 8-bit old, checkSequ accepts old+1, rejects old and accepts
\* old-20, the second argument taken as an 8-bit value
C6_AcceptNextRejectSameAcceptWrap ==
  probe.done =>
    /\ probe.delta = 1 => probe.ok
    /\ probe.delta = 0 => ~probe.ok
    /\ probe.delta = -20 => probe.ok

\* old-20 wraps below zero and is accepted
C6_Witness ==
  probe.done /\ probe.delta = -20 /\ probe.old = 19 /\ probe.new = 255 /\ probe.ok

\* C7 as claimed: for every 8-bit old, checkSequ rejects old-1 and old-19,
\* the second argument taken as an 8-bit value
C7_RejectBehindForAllOld ==
  probe.done /\ probe.delta \in {-1, -19} => ~probe.ok

\* C8: a handler that runs without a packet for its active universe leaves
\* exactly one timeout error for that universe to the error sink if more than
\* timeoutMs have passed since the universe's lastTime and none otherwise;
\* and every read that ends at its deadline starts one such handler for each
\* active universe
C8_TimeoutIsLevelSignal ==
  [][ /\ ( lastStep'.kind = "handle" /\ lastStep'.p = Nil
             /\ lastStep'.outcome # "panic" )
          => LET u == lastStep'.universe
                 errs == {t \in tasks' \ tasks : t.pc = "sendErr"}
             IN  IF now - lastDatas[u].lastTime > timeoutMs
                 THEN /\ Cardinality(errs) = 1
                      /\ \A t \in errs : t.universe = u /\ t.err = "timeout"
                 ELSE errs = {}
      /\ ( loopPc = "read" /\ loopPc' = "top" /\ now >= deadline )
          => \A u \in activated :
               Cardinality({t \in tasks' \ tasks :
                              t.universe = u /\ t.p = Nil /\ t.pc = "start"}) = 1
    ]_vars

\* universe 2 never got a packet; a handler of a later cycle raised its
\* timeout again while the timeout error of an earlier cycle is still on
\* its way to the error sink
C8_Witness ==
  /\ lastStep.kind = "handle"
  /\ lastStep.universe = 2
  /\ lastStep.outcome = "timeout"
  /\ \E t \in tasks :
       /\ t.universe = 2 /\ t.pc = "sendErr" /\ t.err = "timeout"
       /\ t.id < lastStep.id

\* C9 as claimed: at most one handler of a universe is at work on the
\* universe's state at a time, and the handlers of a universe take effect in
\* the order the listener started them
C9_HandlersOfAUniverseSerial ==
  /\ \A u \in Universes : Cardinality(inHandle(u)) <= 1
  /\ lastStep.kind = "handle"
       => \A t \in tasks :
            ( t.universe = lastStep.universe /\ t.pc \in {"start", "sendData"} )
            => t.id >= lastStep.id

\* C10: with nobody receiving from DataChan or ErrChan the listener goes
\* through all its iterations and every handler it started runs
C10_LoopNotStalled == <>[](cycle = MaxCycles /\ runnable = {})

\* a handler of universe 1 is blocked in its send since the first cycle; the
\* listener is in its last iteration and a handler of universe 2 started
\* in a later cycle has run
C10_Witness ==
  /\ cycle = MaxCycles
  /\ \E t \in tasks :
       /\ t.universe = 1 /\ t.pc = "sendData" /\ t.id = 1
       /\ lastStep.kind = "handle"
       /\ lastStep.universe = 2
       /\ lastStep.id > t.id

\* C11: the listener starts polling with the socket open; it leaves the loop
\* only from the top of an iteration with the stop signal raised, and an
\* iteration that begins with the signal raised leaves it; leaving closes the
\* socket, which changes at no other step, and cancels no handler; once
\* stopped the listener stays stopped, begins no iteration and starts no
\* handler; and a raised stop signal leads to the stopped listener
C11_StopObservedAtNextIteration ==
  /\ loopPc = "top"
  /\ socketOpen = TRUE
  /\ [][ /\ (loopPc # "stopped" /\ loopPc' = "stopped")
             => /\ loopPc = "top" /\ stopListener
                /\ socketOpen /\ ~socketOpen'
                /\ tasks' = tasks
         /\ (loopPc = "top" /\ stopListener /\ loopPc' # "top")
             => loopPc' = "stopped"
         /\ socketOpen' # socketOpen => loopPc # "stopped" /\ loopPc' = "stopped"
         /\ loopPc = "stopped"
             => /\ loopPc' = "stopped"
                /\ cycle' = cycle
                /\ {t \in tasks' : t.pc = "start"} \subseteq tasks
     ]_vars
  /\ (stopListener ~> loopPc = "stopped")

\* the listener has stopped and closed the socket, and a handler that was
\* blocked in its send when the listener stopped has gone on since
C11_Witness ==
  /\ loopPc = "stopped"
  /\ ~socketOpen
  /\ stopListener
  /\ lastStep.kind = "recvData"

\* C12: a handler whose packet leaves more than one source in the winning
\* set leaves exactly one "sources exceeded" error for its universe to the
\* error sink and nothing to the data sink, does not reach the sequence
\* validator and leaves lastSequ, lastDMXdata and lastTime as they were
C12_TieRaisesSourcesExceededOnly ==
  [][handledPacket(lastStep') =>
       LET u == lastStep'.universe
           started == tasks' \ tasks
       IN  Cardinality(winningSet(lastDatas'[u].sources)) > 1 =>
             /\ Cardinality({t \in started : t.pc = "sendErr"}) = 1
             /\ \A t \in started :
                  /\ t.pc = "sendErr"
                  /\ t.universe = u
                  /\ t.err = "sources exceeded"
             /\ ~validated(lastStep')
             /\ lastDatas'[u].lastSequ = lastDatas[u].lastSequ
             /\ lastDatas'[u].lastDMXdata = lastDatas[u].lastDMXdata
             /\ lastDatas'[u].lastTime = lastDatas[u].lastTime]_vars

\* the second of two sources at priority 100 was handled: both are in the
\* winning set and its handler is on its way to the error sink
C12_Witness ==
  /\ handledPacket(lastStep)
  /\ lastStep.outcome = "exceeded"
  /\ winningSet(lastDatas[lastStep.universe].sources) = CIDs
  /\ \E t \in tasks :
       /\ t.id = lastStep.id /\ t.pc = "sendErr" /\ t.err = "sources exceeded"
  /\ lastDatas[lastStep.universe].lastSequ # lastStep.p.sequence

\* the last step was a handler raising the timeout of its universe
raisedTimeout(s) == s.kind = "handle" /\ s.outcome = "timeout"

\* C13 as claimed: when a handler raises the timeout of a universe, the
\* listener has read no packet for that universe for longer than timeoutMs
C13_TimeoutOnlyAfterNothingReceived ==
  raisedTimeout(lastStep) =>
    now - lastSeen[lastStep.universe].received > timeoutMs

\* C13 as amended: when a handler raises the timeout of a universe, no
\* packet for that universe has been accepted for longer than timeoutMs
C13_TimeoutOnlyAfterNothingAccepted ==
  raisedTimeout(lastStep) =>
    now - lastSeen[lastStep.universe].accepted > timeoutMs

\* the timeout of universe 1 is raised although a packet for it was read
\* less than a timeout ago: that packet was not accepted, the last accepted
\* one is older than the timeout
C13_Witness ==
  /\ raisedTimeout(lastStep)
  /\ lastStep.universe = 1
  /\ now - lastSeen[1].received < timeoutMs
  /\ lastSeen[1].cid # "nil"
  /\ now - lastSeen[1].accepted > timeoutMs

\* the handler step just taken handled a packet of a source that the
\* universe's source map already held
knownSource ==
  /\ handledPacket(lastStep')
  /\ lastStep'.p.cid \in DOMAIN lastDatas[lastStep'.universe].sources

\* C14: handling a packet of a source already in the map stores lastTime =
\* now in its record; when the packet's priority is above the recorded one
\* the record takes that priority and lastTimeHighPrio = now, when it is
\* equal the record's lastTimeHighPrio becomes now
C14_KnownSourceRecordRefreshed ==
  [][knownSource =>
       LET u == lastStep'.universe
           p == lastStep'.p
           old == lastDatas[u].sources[p.cid]
           new == lastDatas'[u].sources[p.cid]
       IN  /\ new.lastTime = now
           /\ old.highestPrio < p.priority
                => new.highestPrio = p.priority /\ new.lastTimeHighPrio = now
           /\ old.highestPrio = p.priority => new.lastTimeHighPrio = now]_vars

\* C15: handling a packet of a source already in the map at a priority below
\* the recorded one lowers the recorded priority to the packet's, and resets
\* lastTimeHighPrio, exactly when the recorded priority was last confirmed
\* more than timeoutMs ago; otherwise the recorded priority stays
C15_PriorityLoweredAfterGrace ==
  [][knownSource =>
       LET u == lastStep'.universe
           p == lastStep'.p
           old == lastDatas[u].sources[p.cid]
           new == lastDatas'[u].sources[p.cid]
       IN  p.priority < old.highestPrio =>
             IF now - old.lastTimeHighPrio > timeoutMs
             THEN new.highestPrio = p.priority /\ new.lastTimeHighPrio = now
             ELSE new.highestPrio = old.highestPrio]_vars

\* the handlers the listener starts in the step just taken
started == tasks' \ tasks

\* in the step just taken every active universe got exactly one handler:
\* universe v one with the packet p, every other one with nil
dispatched(v, p) ==
  /\ \A t \in started : t.universe \in activated /\ t.pc = "start"
  /\ \A u \in activated :
       /\ Cardinality({t \in started : t.universe = u}) = 1
       /\ \A t \in started : t.universe = u => t.p = (IF u = v THEN p ELSE Nil)

\* C16: one pass of the listener through ReadFrom starts exactly one handler
\* per active universe: all with nil when the read timed out; with the
\* packet for the packet's universe, if that is active, and nil for all
\* others when a data packet was read; and none, changing nothing, when the
\* datagram does not parse
C16_OneHandlerPerActiveUniverse ==
  [][(loopPc = "read" /\ loopPc' = "top") =>
       /\ tasks \subseteq tasks'
       /\ lastDatas' = lastDatas /\ activated' = activated
       /\ IF sent' # sent
          THEN \E v \in Universes, c \in DispatchChoices :
                 /\ sent'[v][c.cid] # sent[v][c.cid]
                 /\ dispatched(v, packet(v, c))
          ELSE IF now >= deadline
          THEN dispatched(0, Nil)
          ELSE started = {}]_vars

\* a packet for universe 1 was read while both universes were active: the
\* handler of universe 1 got the packet, that of universe 2 got nil
C16_Witness ==
  /\ activated = Universes
  /\ \E t1, t2 \in tasks :
       /\ t1.id = t2.id /\ t1.pc = "start" /\ t2.pc = "start"
       /\ t1.universe = 1 /\ t1.p # Nil /\ t1.p.universe = 1
       /\ t2.universe = 2 /\ t2.p = Nil
  /\ Cardinality({t \in tasks : t.pc = "start"}) = 2

\* the handler step just taken handled a packet of the sole winner
soleWinner ==
  /\ handledPacket(lastStep')
  /\ winningSet(lastDatas'[lastStep'.universe].sources) = {lastStep'.p.cid}

\* C17: a packet of the sole winner that fails the sequence check leaves
\* lastSequ, lastDMXdata and lastTime as they were and sends nothing; one
\* that passes sets lastSequ to its sequence number and lastTime to now,
\* also when its payload equals lastDMXdata, in which case nothing is sent
C17_RejectedLeavesFrameAcceptedStamps ==
  [][soleWinner =>
       LET u == lastStep'.universe
           p == lastStep'.p
           old == lastDatas[u]
           new == lastDatas'[u]
       IN  IF ~checkSequ(old.lastSequ, p.sequence)
           THEN /\ new.lastSequ = old.lastSequ
                /\ new.lastDMXdata = old.lastDMXdata
                /\ new.lastTime = old.lastTime
                /\ tasks' \subseteq tasks
           ELSE /\ new.lastSequ = p.sequence
                /\ new.lastTime = now
                /\ p.data = old.lastDMXdata
                     => /\ tasks' \subseteq tasks
                        /\ new.lastDMXdata = old.lastDMXdata]_vars

\* the sole winner's packet was rejected by the sequence check while the
\* universe's lastTime lay in the past, and it stays there
C17_Witness ==
  /\ handledPacket(lastStep)
  /\ lastStep.outcome = "rejected"
  /\ lastStep.tmp = {lastStep.p.cid}
  /\ lastDatas[lastStep.universe].lastTime < now
  /\ lastDatas[lastStep.universe].lastSequ # lastStep.p.sequence

\* the sole winner's packet with the payload already stored was accepted
acceptedUnchangedPayload ==
  /\ handledPacket(lastStep)
  /\ lastStep.outcome = "duplicate"
  /\ lastDatas[lastStep.universe].lastSequ = lastStep.p.sequence
  /\ lastDatas[lastStep.universe].lastTime = now

\* C18: no handler outcome ends the listener; the listener ends only having
\* seen the stop signal or a failed socket read, and a failed socket read
\* does end it, with the socket closed
C18_LoopEndsOnStopOrSocketFailureOnly ==
  [][/\ lastStep'.kind = "handle" => loopPc' = loopPc /\ socketOpen' = socketOpen
     /\ (loopPc = "read" /\ loopPc' = "top" /\ lastStep'.kind # "readFailed")
          => socketOpen'
     /\ (loopPc # "stopped" /\ loopPc' = "stopped")
          => stopListener \/ lastStep'.kind = "readFailed"
     /\ lastStep'.kind = "readFailed"
          => loopPc' = "stopped" /\ ~socketOpen']_vars

\* the handler step just taken ran for a universe that is not active
ranAfterDeactivation ==
  lastStep'.kind = "handle" /\ lastStep'.universe \notin activated

\* C19: a handler that runs when its universe has been deactivated returns
\* without a fault, changes no state and sends nothing, whether it was
\* started with a packet or with nil
C19_LateHandlerIsNoOp ==
  [][ranAfterDeactivation =>
       /\ lastStep'.outcome # "panic"
       /\ crashed' = crashed
       /\ lastDatas' = lastDatas
       /\ tasks' \subseteq tasks]_vars

\* as C19, for the handlers started with a packet
C19_LateHandlerWithPacketIsNoOp ==
  [][(ranAfterDeactivation /\ lastStep'.p # Nil) =>
       /\ lastStep'.outcome # "panic"
       /\ crashed' = crashed]_vars

\* the handler step just taken handled a packet of the sole winner, and the
\* packet accepted last on that universe came from another source
winnerChanged ==
  /\ soleWinner
  /\ lastSeen[lastStep'.universe].cid \notin {"nil", lastStep'.p.cid}

\* C20: the packet of a new sole winner is checked against the sequence
\* number accepted last from the previous one: with a number equal to it or
\* 1 to 19 below it the packet is dropped, nothing is sent and nothing
\* counts as accepted; with any other number it is accepted
C20_NewWinnerCheckedAgainstOldSequence ==
  [][winnerChanged =>
       LET u == lastStep'.universe
           p == lastStep'.p
           delta == p.sequence - lastSeen[u].sequence
       IN  IF delta <= 0 /\ delta > -20
           THEN /\ lastStep'.outcome = "rejected"
                /\ tasks' \subseteq tasks
                /\ lastSeen'[u] = lastSeen[u]
                /\ lastDatas'[u].lastSequ = lastSeen[u].sequence
           ELSE /\ lastStep'.outcome \in {"emit", "duplicate"}
                /\ lastSeen'[u].cid = p.cid
                /\ lastDatas'[u].lastSequ = p.sequence]_vars

\* B, the sole winner after A, had a packet dropped whose sequence number
\* is the one accepted last from A
C20_Witness ==
  /\ handledPacket(lastStep)
  /\ lastStep.outcome = "rejected"
  /\ lastStep.p.cid = "B" /\ lastStep.tmp = {"B"}
  /\ lastSeen[lastStep.universe].cid = "A"
  /\ lastSeen[lastStep.universe].sequence = lastStep.p.sequence
  /\ \A t \in tasks : t.id # lastStep.id

====
